---- MODULE Spec2Model ----
(***************************************************************************)
(* Model of src/simu.py: class Simu, the spring-contact simulation stepper *)
(* of a planar biped.  The rigid-body engine (pinocchio) and the robot     *)
(* description (Hrp2Reduced) are collaborators that are not part of the    *)
(* source file; they are modelled by a small planar engine: one floating   *)
(* base moving in the (y,z) plane and turning about x by quarter turns,    *)
(* two leg bodies and two ankle frames.                                    *)
(*                                                                         *)
(* Numbers are floats in the program.  Here a number is an integer of      *)
(* magnitude at most MaxAbs, or the single non-finite value NaN (standing  *)
(* for inf and nan): a result beyond MaxAbs overflows to NaN and NaN is    *)
(* absorbing.  Python indices are 0-based, sequences here are 1-based:     *)
(* component i of a Python vector is element i+1 of the sequence.          *)
(***************************************************************************)
EXTENDS Integers, Sequences, FiniteSets, TLC

\* ------------------------------------------------------------------ bounds
MaxAbs == 1000000
MaxDt  == 2
MaxNdt == 2

\* ------------------------------------------------------- program constants
KY    == 20000
KZ    == 200000
KROLL == 0
None  == -1

\* ------------------------------------------------------ float arithmetic
NaN == MaxAbs + 1

IsFinite(x) == x # NaN

Norm(x) == IF x > MaxAbs \/ x < -MaxAbs THEN NaN ELSE x

Neg(a) == IF a = NaN THEN NaN ELSE -a

Add(a, b) == IF a = NaN \/ b = NaN THEN NaN ELSE Norm(a + b)

Sub(a, b) == Add(a, Neg(b))

Abs(a) == IF a < 0 THEN -a ELSE a

\* the product overflows exactly when |a|*|b| > MaxAbs
Mul(a, b) ==
  IF a = NaN \/ b = NaN THEN NaN
  ELSE IF b # 0 /\ Abs(a) > MaxAbs \div Abs(b) THEN NaN
  ELSE a * b

VAdd(x, y) == [i \in 1..Len(x) |-> Add(x[i], y[i])]

VScale(x, s) == [i \in 1..Len(x) |-> Mul(x[i], s)]

VFinite(x) == \A i \in 1..Len(x) : IsFinite(x[i])

\* K*x for a 3x3 matrix K (a sequence of rows) and a 3-vector x
MatVec(K, x) ==
  [i \in 1..3 |-> Add(Add(Mul(K[i][1], x[1]), Mul(K[i][2], x[2])), Mul(K[i][3], x[3]))]

\* -np.diagflat([a, b, c])
NegDiag(a, b, c) == << <<Neg(a), 0, 0>>, <<0, Neg(b), 0>>, <<0, 0, Neg(c)>> >>

zero(n) == [i \in 1..n |-> 0]

\* -------------------------------------------------- planar rigid transforms
\* A placement is [t |-> <<y, z>>, r |-> quarter turns about x, 0..3 or NaN].
RotVec(r, p) ==
  CASE r = 0 -> p
    [] r = 1 -> <<Neg(p[2]), p[1]>>
    [] r = 2 -> <<Neg(p[1]), Neg(p[2])>>
    [] r = 3 -> <<p[2], Neg(p[1])>>
    [] OTHER -> <<NaN, NaN>>

RotAdd(r, s) == IF r = NaN \/ s = NaN THEN NaN ELSE (r + s) % 4

RotNeg(r) == IF r = NaN THEN NaN ELSE (4 - r) % 4

Placement(y, z, r) == [t |-> <<y, z>>, r |-> r]

\* A * B
Compose(A, B) ==
  [t |-> VAdd(A.t, RotVec(A.r, B.t)), r |-> RotAdd(A.r, B.r)]

\* A.inverse()
Inverse(A) ==
  [t |-> RotVec(RotNeg(A.r), <<Neg(A.t[1]), Neg(A.t[2])>>), r |-> RotNeg(A.r)]

\* se3.rpy.matrixToRpy(R)[0]: the roll angle, in quarter turns, in (-2, 2]
Roll(r) == CASE r = 3 -> -1 [] r = NaN -> NaN [] OTHER -> r

\* M.act(f) for a 6-vector spatial force f = (linear x,y,z ; angular x,y,z):
\* the linear part rotates, the angular part rotates and gains p x (R lin).
Act(M, f) ==
  LET lin == RotVec(M.r, <<f[2], f[3]>>)
      ang == RotVec(M.r, <<f[5], f[6]>>)
      lx  == IF M.r = NaN THEN NaN ELSE f[1]
      ax  == IF M.r = NaN THEN NaN ELSE f[4]
  IN  << lx, lin[1], lin[2],
         Add(ax, Sub(Mul(M.t[1], lin[2]), Mul(M.t[2], lin[1]))),
         Add(ang[1], Mul(M.t[2], lx)),
         Sub(ang[2], Mul(M.t[1], lx)) >>

\* M.act(m) for a planar motion m = (linear y, linear z, angular x)
ActMotion(M, m) ==
  LET lin == RotVec(M.r, <<m[1], m[2]>>)
      w   == IF M.r = NaN THEN NaN ELSE m[3]
  IN  << Add(lin[1], Mul(M.t[2], w)), Sub(lin[2], Mul(M.t[1], w)), w >>

\* ------------------------------------------------- the robot and the engine
\* robot.model of the planar engine: configuration (y, z, turn) of the base,
\* velocity (vy, vz, w); body 0 is the universe, bodies 1 and 2 are the legs;
\* frame 1 is 'rankle' on body 1, frame 2 is 'lankle' on body 2.
RobotNQ == 3
RobotNV == 3
RobotNB == 3

Identity == Placement(0, 0, 0)

BodyOffset(b) ==
  CASE b = 1 -> Placement(-1, 0, 0)
    [] b = 2 -> Placement(1, 0, 0)
    [] OTHER -> Identity

RobotFrames ==
  << [name |-> "rankle", parent |-> 1, placement |-> Placement(0, -1, 0)],
     [name |-> "lankle", parent |-> 2, placement |-> Placement(0, -1, 0)] >>

\* robot.model.getFrameId(name)
getFrameId(name) == CHOOSE f \in 1..Len(RobotFrames) : RobotFrames[f].name = name

\* robot.q0
RobotQ0 == <<0, 0, 0>>

\* robot.data before any kinematics call
Data0 ==
  [oMi |-> [b \in 0..(RobotNB - 1) |-> Identity],
   oMf |-> [f \in 1..Len(RobotFrames) |-> Identity],
   v   |-> [b \in 0..(RobotNB - 1) |-> zero(RobotNV)]]

\* the engine refuses a configuration of the wrong dimension
ConfigOk(q) == Len(q) = RobotNQ

VelocityOk(v) == Len(v) = RobotNV

\* se3.forwardKinematics(model, data, q) and (model, data, q, v):
\* body placements from q; body velocities from v when v is given
forwardKinematics(data, q, withV, v) ==
  LET base == Placement(q[1], q[2], q[3])
  IN  [data EXCEPT
         !.oMi = [b \in 0..(RobotNB - 1) |->
                    IF b = 0 THEN Identity ELSE Compose(base, BodyOffset(b))],
         !.v   = IF withV
                   THEN [b \in 0..(RobotNB - 1) |->
                           IF b = 0 THEN zero(RobotNV)
                           ELSE ActMotion(Inverse(BodyOffset(b)), v)]
                   ELSE data.v]

\* se3.framesKinematics(model, data): frame placements from body placements
framesKinematics(data) ==
  [data EXCEPT
     !.oMf = [f \in 1..Len(RobotFrames) |->
                Compose(data.oMi[RobotFrames[f].parent], RobotFrames[f].placement)]]

\* se3.aba(model, data, q, vq, tauq, forces): unit inertia at the base, the
\* body forces brought back to the base frame
aba(q, vq, tauq, forces) ==
  LET atBase(b) == Act(BodyOffset(b), forces[b])
      total[b \in 0..(RobotNB - 1)] ==
        IF b = 0 THEN atBase(0) ELSE VAdd(total[b - 1], atBase(b))
      f == total[RobotNB - 1]
  IN  << Add(tauq[1], f[2]), Add(tauq[2], f[3]), Add(tauq[3], f[4]) >>

\* se3.integrate(model, q, dv): the displacement dv is applied in the base
\* frame; the turn wraps (it is not a vector addition)
integrate(q, dv) ==
  LET t == VAdd(<<q[1], q[2]>>, RotVec(q[3], <<dv[1], dv[2]>>))
  IN  << t[1], t[2], RotAdd(q[3], dv[3]) >>

\* what aba leaves in robot.data: the body velocities of vq
abaData(data, vq) ==
  [data EXCEPT
     !.v = [b \in 0..(RobotNB - 1) |->
              IF b = 0 THEN zero(RobotNV)
              ELSE ActMotion(Inverse(BodyOffset(b)), vq)]]

\* ------------------------------------------------------------ module level
\* ForceDict(force_dict, N): every body index in range(N), the zero force
\* where the dict has no entry
ForceDict(force_dict, N) ==
  [i \in 0..(N - 1) |-> IF i \in DOMAIN force_dict THEN force_dict[i] ELSE zero(6)]

\* the dict display { k1: v1, k2: v2 }: the later entry wins on equal keys
Dict2(k1, v1, k2, v2) == [k \in {k1, k2} |-> IF k = k2 THEN v2 ELSE v1]

\* ------------------------------------------------------------- class Simu
VARIABLES
  self,     \* the attributes of the Simu instance
  data,     \* robot.data, the engine's workspace
  vBound,   \* whether the module-level name v is bound yet
  qobj,     \* the contents of the configuration object the caller passed
  vobj,     \* the contents of the velocity object the caller passed
  pc,       \* "ready", "simu" (inside the loop of simu), "returned", "raised"
  call,     \* the frame of the call of step or simu in progress or last made
  log       \* the calls of step made by that call, in order

vars == <<self, data, vBound, qobj, vobj, pc, call, log>>

\* Simu.__init__(robot, q0, dt, ndt)
SimuInit(q0arg, dt, ndt) ==
  LET RF == getFrameId("rankle")
      LF == getFrameId("lankle")
      q0 == IF q0arg = <<>> THEN RobotQ0 ELSE q0arg
      d  == framesKinematics(forwardKinematics(Data0, q0, FALSE, <<>>))
  IN  [self |->
         [frf |-> zero(6), flf |-> zero(6), dt |-> dt, ndt |-> ndt,
          NQ |-> RobotNQ, NV |-> RobotNV, NB |-> RobotNB,
          RF |-> RF, LF |-> LF,
          RK |-> RobotFrames[RF].parent, LK |-> RobotFrames[LF].parent,
          Mrf0 |-> d.oMf[RF], Mlf0 |-> d.oMf[LF],
          Krf |-> NegDiag(KY, KZ, KROLL), Klf |-> NegDiag(KY, KZ, KROLL),
          aq |-> <<>>, forces |-> <<>>],
       data |-> d]

\* the rest pose kept as a reference to robot.data.oMf[RF] (no copy)
CopiedPlacementAliased(M0, oMf) == oMf

\* self.Mrf0 = robot.data.oMf[RF].copy(): the rest pose is a copy, so a later
\* kinematics refresh, which rewrites robot.data.oMf, leaves it as it was
CopiedPlacement(M0, oMf) == M0

\* if dt is None: dt = self.dt
ResolveDt(s, dt) == IF dt = None THEN s.dt ELSE dt

\* the velocity handed to forwardKinematics: the module-level v
KinematicsVelocity(v, vq) == v

\* the relative placement without the inverse of the rest pose
RelativePlacementNoInverse(M0, oMf) == Compose(M0, oMf)

\* Mrf = self.Mrf0.inverse() * robot.data.oMf[RF]
RelativePlacement(M0, oMf) == Compose(Inverse(M0), oMf)

\* qrf = [ Mrf.translation[1:], matrixToRpy(Mrf.rotation)[0] ]
ReducedDisplacement(M) == << M.t[1], M.t[2], Roll(M.r) >>

\* the spring force written one component too low: frf[[0,1,2]]
SpringWriteShifted(buf, K, qd) ==
  LET f == MatVec(K, qd)
  IN  [i \in 1..6 |-> IF i \in {1, 2, 3} THEN f[i] ELSE buf[i]]

\* frf[[1,2,3]] = self.Krf * qrf, written into the reused buffer
SpringWrite(buf, K, qd) ==
  LET f == MatVec(K, qd)
  IN  [i \in 1..6 |-> IF i \in {2, 3, 4} THEN f[i - 1] ELSE buf[i]]

\* rk_frf = (robot.data.oMi[RK].inverse() * self.Mrf0).act(rf0_frf)
Transport(oMk, M0, f) == Act(Compose(Inverse(oMk), M0), f)

\* the configuration integrated with the velocity before its update
EulerStaleVelocity(q, vq, aq, dt) ==
  [vq |-> VAdd(vq, VScale(aq, dt)), q |-> integrate(q, VScale(vq, dt))]

\* vq += aq*dt ; q = se3.integrate(robot.model, q, vq*dt)
Euler(q, vq, aq, dt) ==
  LET vnew == VAdd(vq, VScale(aq, dt))
  IN  [vq |-> vnew, q |-> integrate(q, VScale(vnew, dt))]

\* the attributes of self that step assigns before the dynamics call
StoreForces(s, frf, flf, forces) ==
  [s EXCEPT !.frf = frf, !.flf = flf, !.forces = forces]

\* self.aq = aq
StoreAcceleration(s, aq) == [s EXCEPT !.aq = aq]

\* Simu.step(q, vq, tauq, dt), up to the place where it returns or raises.
\* v is the contents of the module-level v (bound or not).  The kinematics
\* call raises on a configuration of the wrong dimension; fault names the
\* later engine call (dynamics, integration) that raises in this call, if
\* one does.
step(s, d, bound, v, q, vq, tauq, dtArg, fault) ==
  LET dt   == ResolveDt(s, dtArg)
      fkv  == KinematicsVelocity(v, vq)
      d1   == framesKinematics(forwardKinematics(d, q, TRUE, fkv))
      s0   == [s EXCEPT !.Mrf0 = CopiedPlacement(s.Mrf0, d1.oMf[s.RF]),
                        !.Mlf0 = CopiedPlacement(s.Mlf0, d1.oMf[s.LF])]
      Mrf  == RelativePlacement(s0.Mrf0, d1.oMf[s.RF])
      Mlf  == RelativePlacement(s0.Mlf0, d1.oMf[s.LF])
      vrf  == ActMotion(Inverse(RobotFrames[s.RF].placement), d1.v[s.RK])
      vlf  == ActMotion(Inverse(RobotFrames[s.LF].placement), d1.v[s.LK])
      qrf  == ReducedDisplacement(Mrf)
      qlf  == ReducedDisplacement(Mlf)
      frf  == SpringWrite(s.frf, s.Krf, qrf)
      rk   == Transport(d1.oMi[s.RK], s0.Mrf0, frf)
      flf  == SpringWrite(s.flf, s.Klf, qlf)
      lk   == Transport(d1.oMi[s.LK], s0.Mlf0, flf)
      fs   == ForceDict(Dict2(s.RK, rk, s.LK, lk), s.NB)
      s1   == StoreForces(s0, frf, flf, fs)
      aq   == aba(q, vq, tauq, fs)
      d2   == abaData(d1, vq)
      e    == Euler(q, vq, aq, dt)
      out(status, err, s2, dd, vv, qq, rec) ==
        [status |-> status, err |-> err, self |-> s2, data |-> dd,
         vq |-> vv, q |-> qq,
         rec |-> [qin |-> q, vin |-> vq, tau |-> tauq, dt |-> dt,
                  fault |-> fault, status |-> status] @@ rec]
      none == [fkv |-> <<>>, qrf |-> <<>>, qlf |-> <<>>, aq |-> <<>>,
               qout |-> <<>>, vout |-> <<>>]
  IN  IF ~bound
        THEN out("raised", "NameError", s, d, vq, <<>>, none)
      ELSE IF ~ConfigOk(q) \/ ~VelocityOk(fkv)
        THEN out("raised", "kinematics", s, d, vq, <<>>, none)
      ELSE IF fault = "dynamics" \/ ~VelocityOk(vq) \/ ~VelocityOk(tauq)
        THEN out("raised", "dynamics", s1, d1, vq, <<>>,
                 [none EXCEPT !.fkv = fkv, !.qrf = qrf, !.qlf = qlf])
      ELSE IF fault = "integration"
        THEN out("raised", "integration", s1, d2, e.vq, <<>>,
                 [none EXCEPT !.fkv = fkv, !.qrf = qrf, !.qlf = qlf, !.aq = aq])
      ELSE out("returned", "", StoreAcceleration(s1, aq), d2, e.vq, e.q,
               [fkv |-> fkv, qrf |-> qrf, qlf |-> qlf, aq |-> aq,
                qout |-> e.q, vout |-> e.vq])

\* every sub-step given the whole step duration
SubStepDurationWhole(dt, ndt) == dt

\* self.dt/self.ndt: the quotient is floored when both are whole numbers
SubStepDuration(dt, ndt) == dt \div ndt

\* ------------------------------------------------------------ the callers
\* what a caller passes: a configuration (one of the wrong dimension), a
\* velocity object (the module-level v itself, or another object), a torque
\* (one non-finite); and the engine call that raises during a call of step
CallArgs ==
  { [q |-> <<0, 0, 0>>, vq |-> <<0, 0, 0>>, alias |-> TRUE,  tau |-> <<0, 1, 0>>],
    [q |-> <<1, 0, 1>>, vq |-> <<1, 0, 0>>, alias |-> FALSE, tau |-> <<0, 1, 0>>],
    [q |-> <<0, 1, 0>>, vq |-> <<0, 0, 0>>, alias |-> FALSE, tau |-> <<NaN, 0, 0>>],
    [q |-> <<0, 0>>,    vq |-> <<0, 0, 0>>, alias |-> TRUE,  tau |-> <<0, 1, 0>>] }

\* a caller may also go on from what the last call returned, as the
\* playback loop does: q,v = simu(q, v, control(q, v))
Continued ==
  IF pc = "returned"
    THEN { [q |-> call.q, vq |-> vobj, alias |-> call.alias, tau |-> <<0, 1, 0>>] }
    ELSE {}

Q0Args == { <<>>, <<0, 1, 0>> }

Faults == { "none", "dynamics", "integration" }

DtValues == 1..MaxDt

NdtValues == 0..MaxNdt

\* the module-level v = zero(simu.NV) when the caller passes another object
GlobalV == zero(RobotNV)

NoCall == [kind |-> "none", qarg |-> <<>>, varg |-> <<>>, alias |-> FALSE,
           tau |-> <<>>, q |-> <<>>, i |-> 0]

Init ==
  \E q0 \in Q0Args, dt \in DtValues, ndt \in NdtValues :
    LET c == SimuInit(q0, dt, ndt)
    IN  /\ self = c.self
        /\ data = c.data
        /\ vBound = FALSE
        /\ qobj = RobotQ0
        /\ vobj = zero(RobotNV)
        /\ pc = "ready"
        /\ call = NoCall
        /\ log = <<>>

\* simu = Simu(robot, q0, dt, ndt): a new stepper replaces the current one
Construct(q0, dt, ndt) ==
  /\ pc # "simu"
  /\ LET c == SimuInit(q0, dt, ndt)
     IN  /\ self' = c.self
         /\ data' = c.data
  /\ pc' = "ready"
  /\ call' = NoCall
  /\ log' = <<>>
  /\ UNCHANGED <<vBound, qobj, vobj>>

\* v = zero(simu.NV) at module level: from here on the name v is bound
BindModuleV ==
  /\ pc # "simu"
  /\ ~vBound
  /\ vBound' = TRUE
  /\ UNCHANGED <<self, data, qobj, vobj, pc, call, log>>

\* the contents of the module-level v seen by a call: the object passed
\* itself when the caller passes v (alias), another object otherwise
ModuleV(alias, vq) == IF alias THEN vq ELSE GlobalV

\* a caller calls simu.step(q, vq, tauq) or simu.step(q, vq, tauq, dt)
CallStep(q, vin, alias, tauq, dtArg, fault) ==
  /\ pc # "simu"
  /\ \E r \in { step(self, data, vBound, ModuleV(alias, vin), q, vin, tauq,
                     dtArg, fault) } :
       /\ self' = r.self
       /\ data' = r.data
       /\ vobj' = r.vq
       /\ log' = << r.rec >>
       /\ pc' = r.status
       /\ call' = [kind |-> "step", qarg |-> q, varg |-> vin, alias |-> alias,
                   tau |-> tauq, q |-> r.q, i |-> 0]
  /\ qobj' = q
  /\ UNCHANGED vBound

\* a caller calls simu(q, v, tau): entry into Simu.simu
CallSimu(q, vin, alias, tauq) ==
  /\ pc # "simu"
  /\ pc' = "simu"
  /\ qobj' = q
  /\ vobj' = vin
  /\ call' = [kind |-> "simu", qarg |-> q, varg |-> vin, alias |-> alias,
              tau |-> tauq, q |-> q, i |-> 0]
  /\ log' = <<>>
  /\ UNCHANGED <<self, data, vBound>>

\* one turn of the loop: q,v = self.step(q, v, tau, self.dt/self.ndt)
SimuIter(fault) ==
  /\ pc = "simu"
  /\ call.i < self.ndt
  /\ \E r \in { step(self, data, vBound, ModuleV(call.alias, vobj), call.q,
                     vobj, call.tau, SubStepDuration(self.dt, self.ndt),
                     fault) } :
       /\ self' = r.self
       /\ data' = r.data
       /\ vobj' = r.vq
       /\ log' = Append(log, r.rec)
       /\ IF r.status = "returned"
            THEN /\ pc' = "simu"
                 /\ call' = [call EXCEPT !.q = r.q, !.i = @ + 1]
            ELSE /\ pc' = "raised"
                 /\ call' = [call EXCEPT !.q = <<>>]
  /\ UNCHANGED <<vBound, qobj>>

\* the loop is over: return q,v
SimuReturn ==
  /\ pc = "simu"
  /\ call.i >= self.ndt
  /\ pc' = "returned"
  /\ UNCHANGED <<self, data, vBound, qobj, vobj, call, log>>

Next ==
  \/ \E q0 \in Q0Args, dt \in DtValues, ndt \in NdtValues : Construct(q0, dt, ndt)
  \/ \E a \in CallArgs, dtArg \in {None, MaxDt}, fault \in Faults :
       CallStep(a.q, a.vq, a.alias, a.tau, dtArg, fault)
  \/ \E a \in CallArgs \cup Continued : CallSimu(a.q, a.vq, a.alias, a.tau)
  \/ \E fault \in Faults : SimuIter(fault)
  \/ SimuReturn
  \/ BindModuleV

Spec == Init /\ [][Next]_vars

\* ------------------------------------------------------------ properties
Stepped == Len(log) > 0

\* the most recent call of step
Last == log[Len(log)]

SimuReturned == pc = "returned" /\ call.kind = "simu"

RECURSIVE Elapsed(_)
Elapsed(l) == IF l = <<>> THEN 0 ELSE l[1].dt + Elapsed(Tail(l))

\* C1: a call of simu that returns has made exactly ndt calls of step, each
\* with the duration dt/ndt and the torque of the call; the first call of step
\* gets the (q, v) of the caller, each later one the (q, v) the call before it
\* returned, and simu returns the (q, v) of the last one.
C1_SimuThreadsSubSteps ==
  /\ pc = "simu" => Len(log) = call.i /\ call.i <= self.ndt
  /\ SimuReturned =>
       /\ Len(log) = self.ndt
       /\ \A i \in 1..Len(log) :
            /\ log[i].status = "returned"
            /\ log[i].dt = self.dt \div self.ndt
            /\ log[i].tau = call.tau
            /\ log[i].qin = (IF i = 1 THEN call.qarg ELSE log[i - 1].qout)
            /\ log[i].vin = (IF i = 1 THEN call.varg ELSE log[i - 1].vout)
       /\ call.q = (IF Stepped THEN Last.qout ELSE call.qarg)
       /\ vobj = (IF Stepped THEN Last.vout ELSE call.varg)

C1_Witness ==
  /\ SimuReturned
  /\ Len(log) = 2
  /\ log[1].dt = 1
  /\ log[2].qin # log[1].qin
  /\ log[2].vin # log[1].vin

C3_NoPartialCommit ==
  (pc = "raised" /\ call.kind = "simu") => (qobj = call.qarg /\ vobj = call.varg)

\* C4: a call of step whose acceleration or resulting velocity is not finite
\* raises instead of returning.
C4_NonFiniteRaises ==
  (Stepped /\ Last.status = "returned") => (VFinite(Last.aq) /\ VFinite(Last.vout))

\* the attributes fixed at construction
Fixed(s) ==
  << s.Mrf0, s.Mlf0, s.Krf, s.Klf, s.RF, s.LF, s.RK, s.LK, s.dt, s.ndt >>

\* C5: no step of step or simu (every step but a construction) changes the
\* rest poses, the stiffness matrices, the frame and body indices, dt or ndt.
C5_ConstructionFixed == [][pc' # "ready" => Fixed(self)' = Fixed(self)]_vars

C5_Witness ==
  /\ Stepped
  /\ Last.status = "returned"
  /\ self.aq = Last.aq
  /\ self.frf # zero(6)
  /\ data.oMf[self.RF] # self.Mrf0

\* the spring code of the most recent call of step has run
SpringsRan == Stepped /\ Last.qrf # <<>>

\* C6: when the placement of a contact frame found by step equals its rest
\* pose, the reduced displacement of that contact is zero and components
\* 1, 2, 3 of its force buffer are zero.
C6_ZeroAtRest ==
  SpringsRan =>
    /\ data.oMf[self.RF] = self.Mrf0 =>
         Last.qrf = zero(3) /\ \A i \in {2, 3, 4} : self.frf[i] = 0
    /\ data.oMf[self.LF] = self.Mlf0 =>
         Last.qlf = zero(3) /\ \A i \in {2, 3, 4} : self.flf[i] = 0

C6_Witness ==
  /\ SpringsRan
  /\ Last.status = "returned"
  /\ data.oMf[self.RF] = self.Mrf0
  /\ data.oMf[self.LF] = self.Mlf0
  /\ VFinite(Last.vout)
  /\ Last.vout # Last.vin

\* C7: the kinematics refresh of a call of step is computed with the velocity
\* vq passed to that call.
C7_KinematicsFromArguments == SpringsRan => Last.fkv = Last.vin

\* C8: a call of step that returns has computed a from (q, vq, tau, forces),
\* returns vq + a*dt and q integrated with that updated velocity over dt, and
\* leaves a in self.aq.
C8_SemiImplicitEuler ==
  (Stepped /\ Last.status = "returned") =>
    LET a == aba(Last.qin, Last.vin, Last.tau, self.forces)
        v == VAdd(Last.vin, VScale(a, Last.dt))
    IN  /\ Last.aq = a
        /\ Last.vout = v
        /\ Last.qout = integrate(Last.qin, VScale(v, Last.dt))
        /\ self.aq = a
        /\ vobj = v

C8_Witness ==
  /\ Stepped
  /\ Last.status = "returned"
  /\ VFinite(Last.qout)
  /\ Last.vout # Last.vin
  /\ Last.qout # integrate(Last.qin, VScale(Last.vin, Last.dt))

\* a stepper as constructed, with the rest poses, stiffness and dt of s
Fresh(s) == [s EXCEPT !.frf = zero(6), !.flf = zero(6), !.aq = <<>>, !.forces = <<>>]

\* C9: a call of step in which no engine call is interrupted has the outcome
\* of the same call, with equal (q, vq, tau, dt), on a freshly constructed
\* stepper with equal rest poses and stiffness, whatever the module-level
\* state is there: both return, with equal (q, vq), acceleration and forces.
C9_DeterministicGivenInputs ==
  (Stepped /\ Last.fault = "none") =>
    \A bound \in BOOLEAN, v \in { GlobalV, Last.vin } :
      LET r == step(Fresh(self), Data0, bound, v, Last.qin, Last.vin,
                    Last.tau, Last.dt, "none")
      IN  /\ r.status = Last.status
          /\ r.status = "returned" =>
               /\ r.q = Last.qout
               /\ r.vq = Last.vout
               /\ r.self.aq = self.aq
               /\ r.self.forces = self.forces

\* C10: components 0, 4 and 5 of both force buffers are zero in every state,
\* and once the spring code of a call of step has run components 1, 2, 3 hold
\* the spring force of that call alone.
C10_BuffersOnlySpringComponents ==
  /\ \A i \in {1, 5, 6} : self.frf[i] = 0 /\ self.flf[i] = 0
  /\ SpringsRan =>
       /\ \A i \in {2, 3, 4} : self.frf[i] = MatVec(self.Krf, Last.qrf)[i - 1]
       /\ \A i \in {2, 3, 4} : self.flf[i] = MatVec(self.Klf, Last.qlf)[i - 1]

C10_Witness ==
  /\ Len(log) = 2
  /\ log[1].qrf # <<>>
  /\ log[1].qrf # Last.qrf
  /\ Last.qrf # zero(3)
  /\ VFinite(self.frf)

====
